---- MODULE Spec2Model ----
(***************************************************************************)
(* kvz_rtp::media_stream (src/src/media_stream.cc): the session            *)
(* orchestrator that owns the transport (socket_), the session context     *)
(* (rtp_), the optional secure context (srtp_) and the sender / receiver.  *)
(* Each public method is one action; the calls a method makes on its       *)
(* collaborators are applied in the order of the source and are recorded,  *)
(* in that order, in `calls`.                                              *)
(***************************************************************************)
EXTENDS Integers, Sequences, FiniteSets, TLC

(* ------------------------------ bounds -------------------------------- *)
MaxInits == 2          \* bootstrap calls (init / init(zrtp)) per orchestrator

(* --------------------------- pointer values --------------------------- *)
NULL == 0              \* nullptr
WILD == 0 - 1          \* indeterminate non-null value of a never-assigned pointer
ObjIds == 1..MaxInits  \* objects made by `new`: the k-th bootstrap call makes object k
Handles == {NULL, WILD} \cup ObjIds
Valid(h) == h \in ObjIds

(* ----------------------------- error codes ---------------------------- *)
RTP_OK            == "RTP_OK"
RTP_GENERIC_ERROR == "RTP_GENERIC_ERROR"
RTP_SOCKET_ERROR  == "RTP_SOCKET_ERROR"
RTP_BIND_ERROR    == "RTP_BIND_ERROR"
RTP_INVALID_VALUE == "RTP_INVALID_VALUE"
RTP_TIMEOUT       == "RTP_TIMEOUT"
RTP_NOT_SUPPORTED == "RTP_NOT_SUPPORTED"
NONE              == "-"
INADDR_ANY        == "0.0.0.0"
\* what zrtp->init and srtp_->init_zrtp can answer
ZrtpResults == {RTP_OK, RTP_TIMEOUT}
SrtpResults == {RTP_OK, RTP_NOT_SUPPORTED}
\* what the sender answers to push_frame once it runs
PushResults == {RTP_OK, RTP_GENERIC_ERROR}

VARIABLES
    life,          \* "alive" | "closed" (destructor ran) | "crashed" (undefined behaviour ended the process)
    sender_, receiver_, rtp_, srtp_,   \* the four raw owning pointers
    socket_,       \* the transport member: [fd, local, dest, srtp]
    addr_, laddr_, src_port_, dst_port_,   \* the endpoint descriptor; laddr_ is "" or the explicit local address
    flags_,        \* the flags the constructor was given
    key_,          \* the session identity
    ctx_config_,   \* the context configuration: [flags, ctx_values]
    media_config_, \* the caller's media configuration, or NULL
    senders, receivers, rtps, srtps,   \* the objects behind the pointers
    zrtp_args,     \* what the last key-exchange handshake was invoked with
    ninit,         \* bootstrap calls made so far
    boot,          \* the bootstrap calls made so far: what each was given and did
    op, ret, calls,\* the last method called, what it returned, the calls it made
    ub,            \* the undefined behaviour the last method executed
    pusher, puller \* the threads inside push_frame / pull_frame

vars == <<life, sender_, receiver_, rtp_, srtp_, socket_,
          addr_, laddr_, src_port_, dst_port_, flags_, key_, ctx_config_, media_config_,
          senders, receivers, rtps, srtps, zrtp_args, ninit, boot,
          op, ret, calls, ub, pusher, puller>>

ptrs == <<sender_, receiver_, rtp_, srtp_>>
endp == <<addr_, laddr_, src_port_, dst_port_, flags_>>
conf == <<key_, ctx_config_, media_config_>>
heap == <<senders, receivers, rtps, srtps>>
thrd == <<pusher, puller>>

(* --------------------------- object tables ---------------------------- *)
NoSender   == [st |-> "none", rtp |-> NULL, path |-> NONE, bound |-> FALSE,
               prot_new |-> FALSE, prot_start |-> FALSE, hook |-> FALSE]
NoReceiver == [st |-> "none", rtp |-> NULL, path |-> NONE, bound |-> FALSE,
               prot_new |-> FALSE, prot_start |-> FALSE, hook |-> FALSE,
               ready |-> FALSE]
NoZrtpArgs == [ssrc |-> NULL, fd |-> "none", dest |-> FALSE]
NoRtp      == [st |-> "none"]
NoSrtp     == [st |-> "none"]
NoLocal    == [addr |-> NONE, port |-> 0 - 1]
NoSocket   == [fd |-> "none", local |-> NoLocal, dest |-> FALSE, srtp |-> NULL]
Idle       == [st |-> "idle", h |-> NULL, acc |-> {}]

\* the transport is bound to a local endpoint and has its default destination
SockReady(s) == s.fd = "bound" /\ s.dest
\* the transport protects its datagrams: an activated secure context is bound into it
SockProtected(s, tbl) == Valid(s.srtp) /\ tbl[s.srtp].st = "active"

(* ------------------- the machine a method body acts on ----------------- *)
\* the fields a method body reads and writes, as one record
Cur == [sender_ |-> sender_, receiver_ |-> receiver_, rtp_ |-> rtp_, srtp_ |-> srtp_,
        socket_ |-> socket_, senders |-> senders, receivers |-> receivers,
        rtps |-> rtps, srtps |-> srtps, zrtp_args |-> zrtp_args,
        calls |-> <<>>, ub |-> {}, dead |-> FALSE]

Call(m, name) == [m EXCEPT !.calls = Append(@, name)]

(* ------------------------- init_connection ---------------------------- *)
\* socket_.init(AF_INET, SOCK_DGRAM, 0): a fresh datagram socket, or none on failure
socket_init(m, ok) ==
    [Call(m, "socket_.init") EXCEPT
        !.socket_.fd = IF ok THEN "open" ELSE "none",
        !.socket_.local = NoLocal,
        !.socket_.dest = FALSE]

\* faulty variant: the bind goes to INADDR_ANY whatever laddr_ holds
socket_bind_wildcard(m, ok) ==
    [Call(m, "socket_.bind") EXCEPT
        !.socket_.fd = IF ok THEN "bound" ELSE @,
        !.socket_.local = IF ok THEN [addr |-> INADDR_ANY, port |-> src_port_] ELSE @]

\* bind(socket, laddr_, src_port_) when laddr_ is set, else socket_.bind(INADDR_ANY, src_port_)
socket_bind(m, ok) ==
    IF laddr_ # ""
    THEN [Call(m, "bind") EXCEPT
            !.socket_.fd = IF ok THEN "bound" ELSE @,
            !.socket_.local = IF ok THEN [addr |-> laddr_, port |-> src_port_] ELSE @]
    ELSE [Call(m, "socket_.bind") EXCEPT
            !.socket_.fd = IF ok THEN "bound" ELSE @,
            !.socket_.local = IF ok THEN [addr |-> INADDR_ANY, port |-> src_port_] ELSE @]

\* addr_out_ = socket_.create_sockaddr(...); socket_.set_sockaddr(addr_out_)
socket_set_sockaddr(m) ==
    [Call(m, "socket_.set_sockaddr") EXCEPT !.socket_.dest = TRUE]

init_connection(m, sockOk, bindOk) ==
    LET m1 == socket_init(m, sockOk)
        m2 == socket_bind(m1, bindOk)
    IN  IF ~sockOk THEN [ret |-> RTP_SOCKET_ERROR, m |-> m1]
        ELSE IF ~bindOk THEN [ret |-> RTP_BIND_ERROR, m |-> m2]
        ELSE [ret |-> RTP_OK, m |-> socket_set_sockaddr(m2)]

(* ---------------- construction of the owned resources ----------------- *)
\* rtp_ = new kvz_rtp::rtp(fmt_)
new_rtp(m, id) ==
    [Call(m, "new rtp") EXCEPT !.rtp_ = id, !.rtps[id] = [st |-> "live"]]

\* zrtp->init(rtp_->get_ssrc(), socket_.get_raw_socket(), addr_out_)
zrtp_init(m) ==
    [Call(m, "zrtp->init") EXCEPT
        !.zrtp_args = [ssrc |-> m.rtp_, fd |-> m.socket_.fd, dest |-> m.socket_.dest]]

\* srtp_ = new kvz_rtp::srtp()
new_srtp(m, id) ==
    [Call(m, "new srtp") EXCEPT !.srtp_ = id, !.srtps[id] = [st |-> "new"]]

\* srtp_->init_zrtp(SRTP, rtp_, zrtp)
srtp_init_zrtp(m, res) ==
    [Call(m, "srtp_->init_zrtp") EXCEPT
        !.srtps[m.srtp_].st = IF res = RTP_OK THEN "active" ELSE "failed"]

\* socket_.set_srtp(srtp_)
socket_set_srtp(m) ==
    [Call(m, "socket_.set_srtp") EXCEPT !.socket_.srtp = m.srtp_]

\* sender_ = new kvz_rtp::sender(socket_, ctx_config_, fmt_, rtp_)
new_sender(m, id, path) ==
    [Call(m, "new sender") EXCEPT
        !.sender_ = id,
        !.senders[id] = [NoSender EXCEPT
            !.st = "constructed", !.rtp = m.rtp_, !.path = path,
            !.bound = SockReady(m.socket_),
            !.prot_new = SockProtected(m.socket_, m.srtps)]]

\* receiver_ = new kvz_rtp::receiver(socket_, ctx_config_, fmt_, rtp_)
new_receiver(m, id, path) ==
    [Call(m, "new receiver") EXCEPT
        !.receiver_ = id,
        !.receivers[id] = [NoReceiver EXCEPT
            !.st = "constructed", !.rtp = m.rtp_, !.path = path,
            !.bound = SockReady(m.socket_),
            !.prot_new = SockProtected(m.socket_, m.srtps)]]

\* sender_->init()
sender_init(m) ==
    [Call(m, "sender_->init") EXCEPT
        !.senders[m.sender_].st = "started",
        !.senders[m.sender_].prot_start = SockProtected(m.socket_, m.srtps)]

\* receiver_->start()
receiver_start(m) ==
    [Call(m, "receiver_->start") EXCEPT
        !.receivers[m.receiver_].st = "started",
        !.receivers[m.receiver_].prot_start = SockProtected(m.socket_, m.srtps)]

\* lines 92-97 and 135-139: construct and start the sender and the receiver
start_units(m, id, path) ==
    receiver_start(sender_init(new_receiver(new_sender(m, id, path), id, path)))

\* faulty variant: the result of init_connection is not looked at
init_body_unchecked(m, id, sockOk, bindOk) ==
    LET c == init_connection(m, sockOk, bindOk)
    IN  [ret |-> IF c.ret # RTP_OK THEN RTP_GENERIC_ERROR ELSE RTP_OK,
         m |-> start_units(new_rtp(c.m, id), id, "plain")]

(* ------------------------------ init() -------------------------------- *)
init_body(m, id, sockOk, bindOk) ==
    LET c == init_connection(m, sockOk, bindOk)
    IN  IF c.ret # RTP_OK
        THEN [ret |-> RTP_GENERIC_ERROR, m |-> c.m]
        ELSE [ret |-> RTP_OK, m |-> start_units(new_rtp(c.m, id), id, "plain")]

\* the record of one bootstrap call: the method, what its collaborators answered
\* (conn: init_connection, hs: zrtp->init, sr: srtp_->init_zrtp; NONE when not
\* asked), what it returned and the calls it made
Booted(name, conn, hs, sr, r) ==
    LET asked(c, v) == IF \E i \in 1..Len(r.m.calls) : r.m.calls[i] = c THEN v ELSE NONE
    IN  [op |-> name, conn |-> conn, hs |-> asked("zrtp->init", hs),
         sr |-> asked("srtp_->init_zrtp", sr), ret |-> r.ret, calls |-> r.m.calls]

\* faulty variant: the result of srtp_->init_zrtp is not looked at
init_zrtp_body_unchecked(m, id, sockOk, bindOk, hs, sr) ==
    LET c  == init_connection(m, sockOk, bindOk)
        m1 == zrtp_init(new_rtp(c.m, id))
        m2 == srtp_init_zrtp(new_srtp(m1, id), sr)
        m3 == start_units(socket_set_srtp(m2), id, "secure")
    IN  IF c.ret # RTP_OK THEN [ret |-> RTP_GENERIC_ERROR, m |-> c.m]
        ELSE IF hs # RTP_OK THEN [ret |-> hs, m |-> m1]
        ELSE [ret |-> sr, m |-> m3]

\* faulty variant: the secure context is bound into the socket before it is activated
init_zrtp_body_bind_first(m, id, sockOk, bindOk, hs, sr) ==
    LET c  == init_connection(m, sockOk, bindOk)
        m1 == zrtp_init(new_rtp(c.m, id))
        m2 == srtp_init_zrtp(socket_set_srtp(new_srtp(m1, id)), sr)
        m3 == start_units(m2, id, "secure")
    IN  IF c.ret # RTP_OK THEN [ret |-> RTP_GENERIC_ERROR, m |-> c.m]
        ELSE IF hs # RTP_OK THEN [ret |-> hs, m |-> m1]
        ELSE IF sr # RTP_OK THEN [ret |-> sr, m |-> m2]
        ELSE [ret |-> sr, m |-> m3]

\* faulty variant: the handshake is run before the connection is established
init_zrtp_body_handshake_first(m, id, sockOk, bindOk, hs, sr) ==
    LET m0 == zrtp_init(new_rtp(m, id))
        c  == init_connection(m0, sockOk, bindOk)
        m2 == srtp_init_zrtp(new_srtp(c.m, id), sr)
        m3 == start_units(socket_set_srtp(m2), id, "secure")
    IN  IF hs # RTP_OK THEN [ret |-> hs, m |-> m0]
        ELSE IF c.ret # RTP_OK THEN [ret |-> RTP_GENERIC_ERROR, m |-> c.m]
        ELSE IF sr # RTP_OK THEN [ret |-> sr, m |-> m2]
        ELSE [ret |-> sr, m |-> m3]

(* --------------------------- init(zrtp) ------------------------------- *)
init_zrtp_body(m, id, sockOk, bindOk, hs, sr) ==
    LET c  == init_connection(m, sockOk, bindOk)
        m1 == zrtp_init(new_rtp(c.m, id))
        m2 == srtp_init_zrtp(new_srtp(m1, id), sr)
        m3 == start_units(socket_set_srtp(m2), id, "secure")
    IN  IF c.ret # RTP_OK THEN [ret |-> RTP_GENERIC_ERROR, m |-> c.m]
        ELSE IF hs # RTP_OK THEN [ret |-> hs, m |-> m1]
        ELSE IF sr # RTP_OK THEN [ret |-> sr, m |-> m2]
        ELSE [ret |-> sr, m |-> m3]

\* the state a method body leaves behind
Commit(m) ==
    /\ sender_' = m.sender_ /\ receiver_' = m.receiver_
    /\ rtp_' = m.rtp_ /\ srtp_' = m.srtp_
    /\ socket_' = m.socket_
    /\ senders' = m.senders /\ receivers' = m.receivers
    /\ rtps' = m.rtps /\ srtps' = m.srtps
    /\ zrtp_args' = m.zrtp_args
    /\ calls' = m.calls /\ ub' = m.ub

init ==
    /\ life = "alive" /\ ninit < MaxInits
    /\ \E sockOk, bindOk \in BOOLEAN :
         LET r == init_body(Cur, ninit + 1, sockOk, bindOk)
             c == init_connection(Cur, sockOk, bindOk).ret
         IN  /\ Commit(r.m) /\ ret' = r.ret
             /\ boot' = Append(boot, Booted("init", c, NONE, NONE, r))
    /\ op' = "init" /\ ninit' = ninit + 1
    /\ UNCHANGED <<life, endp, conf, thrd>>

init_zrtp ==
    /\ life = "alive" /\ ninit < MaxInits
    /\ \E sockOk, bindOk \in BOOLEAN, hs \in ZrtpResults, sr \in SrtpResults :
         LET r == init_zrtp_body(Cur, ninit + 1, sockOk, bindOk, hs, sr)
             c == init_connection(Cur, sockOk, bindOk).ret
         IN  /\ Commit(r.m) /\ ret' = r.ret
             /\ boot' = Append(boot, Booted("init(zrtp)", c, hs, sr, r))
    /\ op' = "init(zrtp)" /\ ninit' = ninit + 1
    /\ UNCHANGED <<life, endp, conf, thrd>>

(* ----------------------- calls through a pointer ---------------------- *)
\* p-> and delete p are defined only when p points to an object that still exists
Live(tbl, h) == Valid(h) /\ tbl[h].st \notin {"none", "deleted"}

\* whether the process dies is a choice only where behaviour is undefined
Dies(defined) == IF defined THEN {FALSE} ELSE BOOLEAN

\* undefined behaviour at `site`: the process dies there (cr) or runs on
Undefined(m, site, cr) ==
    [Call(m, site) EXCEPT !.ub = @ \cup {site}, !.dead = cr]

(* --------------------------- ~media_stream ---------------------------- *)
\* sender_->destroy()
sender_destroy(m, cr) ==
    IF m.dead THEN m
    ELSE IF Live(m.senders, m.sender_)
    THEN [Call(m, "sender_->destroy") EXCEPT !.senders[m.sender_].st = "destroyed"]
    ELSE Undefined(m, "sender_->destroy", cr)

\* receiver_->stop()
receiver_stop(m, cr) ==
    IF m.dead THEN m
    ELSE IF Live(m.receivers, m.receiver_)
    THEN [Call(m, "receiver_->stop") EXCEPT !.receivers[m.receiver_].st = "stopped"]
    ELSE Undefined(m, "receiver_->stop", cr)

\* delete sender_
delete_sender(m, cr) ==
    IF m.dead \/ m.sender_ = NULL THEN m
    ELSE IF Live(m.senders, m.sender_)
    THEN [Call(m, "delete sender_") EXCEPT !.senders[m.sender_].st = "deleted"]
    ELSE Undefined(m, "delete sender_", cr)

\* delete receiver_
delete_receiver(m, cr) ==
    IF m.dead \/ m.receiver_ = NULL THEN m
    ELSE IF Live(m.receivers, m.receiver_)
    THEN [Call(m, "delete receiver_") EXCEPT !.receivers[m.receiver_].st = "deleted"]
    ELSE Undefined(m, "delete receiver_", cr)

\* a receiver whose background activity still runs on session context h
RunsOn(m, h) == \E r \in ObjIds : m.receivers[r].st = "started" /\ m.receivers[r].rtp = h

\* delete rtp_
delete_rtp(m, cr) ==
    IF m.dead \/ m.rtp_ = NULL THEN m
    ELSE IF ~Live(m.rtps, m.rtp_) THEN Undefined(m, "delete rtp_", cr)
    ELSE IF RunsOn(m, m.rtp_)
    THEN [Undefined(m, "delete rtp_", cr) EXCEPT !.rtps[m.rtp_].st = "deleted"]
    ELSE [Call(m, "delete rtp_") EXCEPT !.rtps[m.rtp_].st = "deleted"]

\* delete srtp_
delete_srtp(m, cr) ==
    IF m.dead \/ m.srtp_ = NULL THEN m
    ELSE IF Live(m.srtps, m.srtp_)
    THEN [Call(m, "delete srtp_") EXCEPT !.srtps[m.srtp_].st = "deleted"]
    ELSE Undefined(m, "delete srtp_", cr)

\* faulty variant: the session context is released before the receiver is stopped
destructor_body_rtp_first(m, cr) ==
    delete_srtp(delete_receiver(delete_sender(receiver_stop(
        delete_rtp(sender_destroy(m, cr), cr), cr), cr), cr), cr)

destructor_body(m, cr) ==
    delete_srtp(delete_rtp(delete_receiver(delete_sender(
        receiver_stop(sender_destroy(m, cr), cr), cr), cr), cr), cr)

\* the destructor body, then the members: socket_ goes with the orchestrator
destructor ==
    /\ life = "alive"
    /\ \E cr \in Dies(Live(senders, sender_) /\ Live(receivers, receiver_)) :
         LET m == destructor_body(Cur, cr)
         IN  /\ Commit(IF m.dead THEN m ELSE [m EXCEPT !.socket_ = NoSocket])
             /\ life' = IF m.dead THEN "crashed" ELSE "closed"
    /\ op' = "~media_stream" /\ ret' = NONE
    /\ UNCHANGED <<endp, conf, ninit, boot, thrd>>

(* ------------------------------ hooks --------------------------------- *)
\* install_receive_hook(arg, hook) handing the hook on before testing it
install_receive_hook_body_late_test(m, hook, cr) ==
    IF Live(m.receivers, m.receiver_)
    THEN [ret |-> IF hook THEN RTP_OK ELSE RTP_INVALID_VALUE,
          m |-> [Call(m, "receiver_->install_recv_hook") EXCEPT
                    !.receivers[m.receiver_].hook = hook]]
    ELSE [ret |-> IF hook THEN RTP_OK ELSE RTP_INVALID_VALUE,
          m |-> Undefined(m, "receiver_->install_recv_hook", cr)]

\* install_receive_hook(arg, hook)
install_receive_hook_body(m, hook, cr) ==
    IF ~hook THEN [ret |-> RTP_INVALID_VALUE, m |-> m]
    ELSE IF Live(m.receivers, m.receiver_)
    THEN [ret |-> RTP_OK,
          m |-> [Call(m, "receiver_->install_recv_hook") EXCEPT
                    !.receivers[m.receiver_].hook = TRUE]]
    ELSE [ret |-> RTP_OK, m |-> Undefined(m, "receiver_->install_recv_hook", cr)]

\* install_deallocation_hook(hook)
install_deallocation_hook_body(m, hook, cr) ==
    IF ~hook THEN [ret |-> RTP_INVALID_VALUE, m |-> m]
    ELSE IF Live(m.senders, m.sender_)
    THEN [ret |-> RTP_OK,
          m |-> [Call(m, "sender_->install_dealloc_hook") EXCEPT
                    !.senders[m.sender_].hook = TRUE]]
    ELSE [ret |-> RTP_OK, m |-> Undefined(m, "sender_->install_dealloc_hook", cr)]

\* a method that ran into undefined behaviour returned, or the process died in it
Outcome(r) ==
    /\ Commit(r.m)
    /\ life' = IF r.m.dead THEN "crashed" ELSE life
    /\ ret' = IF r.m.dead THEN NONE ELSE r.ret

\* hook is FALSE for a null function pointer
install_receive_hook_with(hook) ==
    /\ life = "alive"
    /\ \E cr \in Dies(Live(receivers, receiver_)) :
         Outcome(install_receive_hook_body(Cur, hook, cr))
    /\ op' = "install_receive_hook"
    /\ UNCHANGED <<endp, conf, ninit, boot, thrd>>

install_deallocation_hook_with(hook) ==
    /\ life = "alive"
    /\ \E cr \in Dies(Live(senders, sender_)) :
         Outcome(install_deallocation_hook_body(Cur, hook, cr))
    /\ op' = "install_deallocation_hook"
    /\ UNCHANGED <<endp, conf, ninit, boot, thrd>>

install_receive_hook == \E hook \in BOOLEAN : install_receive_hook_with(hook)
install_deallocation_hook == \E hook \in BOOLEAN : install_deallocation_hook_with(hook)

(* ----------------------------- frame I/O ------------------------------ *)
\* faulty variant: a failed send drops the sender pointer
push_frame_body_reset(m, h, res, cr) ==
    IF Live(m.senders, h)
    THEN [ret |-> res,
          m |-> [Call(m, "sender_->push_frame") EXCEPT
                    !.sender_ = IF res = RTP_OK THEN @ ELSE NULL]]
    ELSE [ret |-> res, m |-> Undefined(m, "sender_->push_frame", cr)]

\* push_frame, both overloads: return sender_->push_frame(...); res is what the
\* sender answers
push_frame_body(m, h, res, cr) ==
    IF Live(m.senders, h)
    THEN [ret |-> res, m |-> Call(m, "sender_->push_frame")]
    ELSE [ret |-> res, m |-> Undefined(m, "sender_->push_frame", cr)]

\* the receiver hands over a ready frame, or nothing
receiver_pull_frame(m, h) ==
    IF m.receivers[h].ready
    THEN [ret |-> "frame", m |-> [m EXCEPT !.receivers[h].ready = FALSE]]
    ELSE [ret |-> "nullptr", m |-> m]

\* pull_frame: return receiver_->pull_frame()
pull_frame_body(m, h, res, cr) ==
    IF Live(m.receivers, h)
    THEN receiver_pull_frame(Call(m, "receiver_->pull_frame"), h)
    ELSE [ret |-> res, m |-> Undefined(m, "receiver_->pull_frame", cr)]

push_frame ==
    /\ life = "alive"
    /\ \E cr \in Dies(Live(senders, sender_)), res \in PushResults :
         Outcome(push_frame_body(Cur, sender_, res, cr))
    /\ \E owned \in BOOLEAN :
         op' = IF owned THEN "push_frame(unique_ptr)" ELSE "push_frame"
    /\ UNCHANGED <<endp, conf, ninit, boot, thrd>>

pull_frame ==
    /\ life = "alive"
    /\ \E cr \in Dies(Live(receivers, receiver_)), res \in {"frame", "nullptr"} :
         Outcome(pull_frame_body(Cur, receiver_, res, cr))
    /\ op' = "pull_frame"
    /\ UNCHANGED <<endp, conf, ninit, boot, thrd>>

\* the receiver's own thread, running since receiver_->start(): it completes a frame
receiver_activity ==
    /\ life = "alive"
    /\ \E r \in ObjIds :
         /\ receivers[r].st = "started" /\ ~receivers[r].ready
         /\ receivers' = [receivers EXCEPT ![r].ready = TRUE]
    /\ UNCHANGED <<life, ptrs, senders, rtps, srtps, socket_, endp, conf, zrtp_args,
                   ninit, boot, op, ret, calls, ub, thrd>>

(* ------------- frame I/O from threads of the caller's own ------------- *)
\* the orchestrator fields push_frame and pull_frame touch, as <<field, mode>>
push_frame_access == {<<"sender_", "read">>}
pull_frame_access == {<<"receiver_", "read">>}

\* a thread enters push_frame: it reads sender_ and calls into the sender
push_frame_call ==
    /\ life = "alive" /\ pusher.st = "idle" /\ Live(senders, sender_)
    /\ pusher' = [st |-> "called", h |-> sender_, acc |-> push_frame_access]
    /\ UNCHANGED <<life, ptrs, heap, socket_, endp, conf, zrtp_args, ninit, boot,
                   op, ret, calls, ub, puller>>

\* ... and comes back with the sender's answer
push_frame_return ==
    /\ life = "alive" /\ pusher.st = "called"
    /\ \E res \in PushResults :
         Outcome(push_frame_body(Cur, pusher.h, res, FALSE))
    /\ op' = "push_frame"
    /\ pusher' = Idle
    /\ UNCHANGED <<endp, conf, ninit, boot, puller>>

\* a thread enters pull_frame: it reads receiver_ and calls into the receiver
pull_frame_call ==
    /\ life = "alive" /\ puller.st = "idle" /\ Live(receivers, receiver_)
    /\ puller' = [st |-> "called", h |-> receiver_, acc |-> pull_frame_access]
    /\ UNCHANGED <<life, ptrs, heap, socket_, endp, conf, zrtp_args, ninit, boot,
                   op, ret, calls, ub, pusher>>

pull_frame_return ==
    /\ life = "alive" /\ puller.st = "called"
    /\ Outcome(pull_frame_body(Cur, puller.h, "nullptr", FALSE))
    /\ op' = "pull_frame"
    /\ puller' = Idle
    /\ UNCHANGED <<endp, conf, ninit, boot, pusher>>

(* --------------------------- configuration ---------------------------- *)
\* values generate_32() may draw
Keys == {305419896, 19088743}

RCC_LAST == 2          \* end of the keys of ctx_values
RCE_LAST == 3          \* end of the flags configure_ctx(flag) accepts
FlagBits == 2          \* width of the flag bitmask followed here

\* a | b on bitmasks of FlagBits bits
RECURSIVE OrBits(_, _, _)
OrBits(a, b, n) ==
    IF n = 0 THEN 0
    ELSE (IF a % 2 = 1 \/ b % 2 = 1 THEN 1 ELSE 0) + 2 * OrBits(a \div 2, b \div 2, n - 1)
BitOr(a, b) == OrBits(a, b, FlagBits)

\* configure_ctx(int flag, ssize_t value) writing every entry of the table
configure_ctx_value_body_fill(c, flag, value) ==
    IF flag < 0 \/ flag >= RCC_LAST \/ value < 0
    THEN [ret |-> RTP_INVALID_VALUE, c |-> c]
    ELSE [ret |-> RTP_OK, c |-> [c EXCEPT !.ctx_values = [i \in DOMAIN @ |-> value]]]

\* configure_ctx(int flag, ssize_t value) without the test of value
configure_ctx_value_body_any_value(c, flag, value) ==
    IF flag < 0 \/ flag >= RCC_LAST
    THEN [ret |-> RTP_INVALID_VALUE, c |-> c]
    ELSE [ret |-> RTP_OK, c |-> [c EXCEPT !.ctx_values[flag] = value]]

\* configure_ctx(int flag, ssize_t value)
configure_ctx_value_body(c, flag, value) ==
    IF flag < 0 \/ flag >= RCC_LAST \/ value < 0
    THEN [ret |-> RTP_INVALID_VALUE, c |-> c]
    ELSE [ret |-> RTP_OK, c |-> [c EXCEPT !.ctx_values[flag] = value]]

\* configure_ctx(int flag) assigning the flag instead of or-ing it in
configure_ctx_flag_body_assign(c, flag) ==
    IF flag < 0 \/ flag >= RCE_LAST
    THEN [ret |-> RTP_INVALID_VALUE, c |-> c]
    ELSE [ret |-> RTP_OK, c |-> [c EXCEPT !.flags = flag]]

\* configure_ctx(int flag) taking flag for the number of the bit to set
configure_ctx_flag_body_shift(c, flag) ==
    IF flag < 0 \/ flag >= RCE_LAST
    THEN [ret |-> RTP_INVALID_VALUE, c |-> c]
    ELSE [ret |-> RTP_OK, c |-> [c EXCEPT !.flags = BitOr(@, 2 ^ flag)]]

\* configure_ctx(int flag)
configure_ctx_flag_body(c, flag) ==
    IF flag < 0 \/ flag >= RCE_LAST
    THEN [ret |-> RTP_INVALID_VALUE, c |-> c]
    ELSE [ret |-> RTP_OK, c |-> [c EXCEPT !.flags = BitOr(@, flag)]]

\* a method that calls no collaborator and touches only what it is said to
Plain(name, r) ==
    /\ life = "alive"
    /\ op' = name /\ ret' = r /\ calls' = <<>> /\ ub' = {}
    /\ UNCHANGED <<life, ptrs, heap, socket_, endp, zrtp_args, ninit, boot, thrd>>

configure_ctx_value(flag, value) ==
    LET r == configure_ctx_value_body(ctx_config_, flag, value)
    IN  /\ Plain("configure_ctx(flag, value)", r.ret)
        /\ ctx_config_' = r.c
        /\ UNCHANGED <<key_, media_config_>>

configure_ctx_flag(flag) ==
    LET r == configure_ctx_flag_body(ctx_config_, flag)
    IN  /\ Plain("configure_ctx(flag)", r.ret)
        /\ ctx_config_' = r.c
        /\ UNCHANGED <<key_, media_config_>>

\* the arguments tried: below, inside and at the end of each range
KeyArgs   == (0 - 1)..RCC_LAST
ValueArgs == (0 - 1)..1
FlagArgs  == (0 - 1)..RCE_LAST

configure_ctx == \E flag \in KeyArgs, value \in ValueArgs : configure_ctx_value(flag, value)
configure_ctx_enable == \E flag \in FlagArgs : configure_ctx_flag(flag)

\* set_media_config(void *config) keeping the old reference when given null
set_media_config_to_checked(config) ==
    /\ Plain("set_media_config", NONE)
    /\ media_config_' = IF config = "nullptr" THEN media_config_ ELSE config
    /\ UNCHANGED <<key_, ctx_config_>>

\* set_media_config(void *config)
set_media_config_to(config) ==
    /\ Plain("set_media_config", NONE)
    /\ media_config_' = config
    /\ UNCHANGED <<key_, ctx_config_>>

MediaConfigs == {"nullptr", "cfgA", "cfgB"}
set_media_config == \E config \in MediaConfigs : set_media_config_to(config)

\* get_media_config()
get_media_config ==
    /\ Plain("get_media_config", media_config_)
    /\ UNCHANGED conf

\* get_key() drawing a fresh random number instead of returning the stored one
get_key_fresh ==
    /\ \E k \in Keys \ {key_} : Plain("get_key", k)
    /\ UNCHANGED conf

\* get_key()
get_key ==
    /\ Plain("get_key", key_)
    /\ UNCHANGED conf

(* ---------------------------- construction ---------------------------- *)
\* the endpoint descriptors tried: without and with an explicit local address
Endpoints ==
    { [addr |-> "203.0.113.5", laddr |-> "", src |-> 5004, dst |-> 5006],
      [addr |-> "203.0.113.5", laddr |-> "10.0.0.2", src |-> 6000, dst |-> 6002] }

\* media_stream(...): srtp_(nullptr), socket_(), ctx_config_(), media_config_(nullptr),
\* key_ drawn at random, ctx_config_.flags = flags; sender_, receiver_ and rtp_ are
\* not assigned, so each holds an indeterminate value, one of `junk`
Constructed(endpoints, keys, flagsets, junk) ==
    /\ life = "alive"
    /\ sender_ \in junk /\ receiver_ \in junk /\ rtp_ \in junk
    /\ srtp_ = NULL
    /\ socket_ = NoSocket
    /\ \E e \in endpoints :
         addr_ = e.addr /\ laddr_ = e.laddr /\ src_port_ = e.src /\ dst_port_ = e.dst
    /\ key_ \in keys
    /\ \E flags \in flagsets :
         /\ flags_ = flags
         /\ ctx_config_ = [flags |-> flags, ctx_values |-> [i \in 0..(RCC_LAST - 1) |-> 0]]
    /\ media_config_ = "nullptr"
    /\ senders = [i \in ObjIds |-> NoSender]
    /\ receivers = [i \in ObjIds |-> NoReceiver]
    /\ rtps = [i \in ObjIds |-> NoRtp]
    /\ srtps = [i \in ObjIds |-> NoSrtp]
    /\ zrtp_args = NoZrtpArgs
    /\ ninit = 0 /\ boot = <<>>
    /\ op = "media_stream" /\ ret = NONE /\ calls = <<>> /\ ub = {}
    /\ pusher = Idle /\ puller = Idle

Init == Constructed(Endpoints, {305419896}, {0}, {NULL, WILD})

Next ==
    \/ init
    \/ init_zrtp
    \/ destructor
    \/ install_receive_hook
    \/ install_deallocation_hook
    \/ push_frame
    \/ pull_frame
    \/ receiver_activity

Spec == Init /\ [][Next]_vars

\* an orchestrator whose callers push and pull from threads of their own
NextIO ==
    \/ init
    \/ init_zrtp
    \/ push_frame_call
    \/ push_frame_return
    \/ pull_frame_call
    \/ pull_frame_return
    \/ receiver_activity

SpecIO == Init /\ [][NextIO]_vars

\* the configuration surface, on an orchestrator bootstrapped at most once and
\* not destroyed: a null and a non-null indeterminate pointer differ only in
\* `delete`, so one of them stands for both here; the first constructor is used
InitCfg == Constructed({e \in Endpoints : e.laddr = ""}, Keys, {0, 1}, {WILD})

NextCfg ==
    \/ boot = <<>> /\ init
    \/ boot = <<>> /\ init_zrtp
    \/ configure_ctx
    \/ configure_ctx_enable
    \/ set_media_config
    \/ get_media_config
    \/ get_key
    \/ install_receive_hook
    \/ install_deallocation_hook
    \/ push_frame
    \/ pull_frame

SpecCfg == InitCfg /\ [][NextCfg]_vars

(* ====================================================================== *)
(* Properties                                                             *)
(* ====================================================================== *)
Calls(k) == {boot[k].calls[i] : i \in 1..Len(boot[k].calls)}
Boots == 1..Len(boot)
\* the k-th bootstrap call made none of the owned resources
MadeNothing(k) ==
    /\ rtps[k].st = "none" /\ srtps[k].st = "none"
    /\ senders[k].st = "none" /\ receivers[k].st = "none"
\* the k-th bootstrap call was init(zrtp) and its handshake failed
HandshakeFailed(k) == boot[k].op = "init(zrtp)" /\ boot[k].hs \notin {NONE, RTP_OK}
\* the sender and the receiver the orchestrator holds exist and run
Active ==
    /\ Live(senders, sender_) /\ senders[sender_].st = "started"
    /\ Live(receivers, receiver_) /\ receivers[receiver_].st = "started"

\* C1 (as claimed): when the handshake of init(zrtp) fails, the call returns the
\* handshake's error, it makes no secure context and binds none, and neither in
\* that call nor in any later state of the orchestrator is a sender or a
\* receiver constructed or started.
C1_HandshakeFailureNeverStarts ==
    \A k \in Boots : HandshakeFailed(k) =>
        /\ boot[k].ret = boot[k].hs
        /\ {"new srtp", "socket_.set_srtp", "new sender", "new receiver",
            "sender_->init", "receiver_->start"} \cap Calls(k) = {}
        /\ \A j \in k..MaxInits :
               srtps[j].st = "none" /\ senders[j].st = "none" /\ receivers[j].st = "none"

UnitOnReadyTransport(u) ==
    u.st # "none" =>
        /\ u.bound
        /\ u.path = "secure" => u.prot_new /\ (u.st # "constructed" => u.prot_start)

\* C2: every sender and receiver ever constructed was constructed on a transport
\* already created, bound and given its default destination; one constructed by
\* the secure bootstrap was constructed and started on a transport into which an
\* activated secure context (init_zrtp returned RTP_OK) was already bound.
C2_UnitsAfterTransportAndSrtp ==
    \A k \in ObjIds :
        UnitOnReadyTransport(senders[k]) /\ UnitOnReadyTransport(receivers[k])

C2_Witness ==
    \E k \in ObjIds :
        /\ senders[k].path = "secure" /\ senders[k].st = "started"
        /\ receivers[k].path = "secure" /\ receivers[k].st = "started"
        /\ socket_.srtp = k

\* C3 (as claimed): the destructor is safe from every lifecycle state: it calls
\* nothing on and releases nothing that was never constructed, and releases
\* nothing twice.
C3_TeardownSafe == op = "~media_stream" => ub = {} /\ life = "closed"

FrameIO == {"push_frame", "push_frame(unique_ptr)", "pull_frame",
            "install_receive_hook", "install_deallocation_hook"}

\* C4 (as claimed): while the sender and the receiver do not exist, push_frame
\* returns an error, pull_frame returns nothing, and the hook installers with a
\* non-null hook do not go through the sender or receiver pointer.
C4_FrameIOFailsSafely ==
    (op \in FrameIO /\ ~Valid(sender_) /\ ~Valid(receiver_)) =>
        /\ ub = {} /\ calls = <<>> /\ life = "alive"
        /\ op \in {"push_frame", "push_frame(unique_ptr)"} => ret # RTP_OK
        /\ op = "pull_frame" => ret = "nullptr"

\* C5: a bootstrap call whose connection establishment fails (socket creation or
\* bind) returns an error and constructs nothing: no session context, no secure
\* context, no sender, no receiver; it does not set the default destination and
\* does not invoke the key exchange.
C5_ConnectionFailureBuildsNothing ==
    \A k \in Boots : boot[k].conn # RTP_OK =>
        /\ boot[k].ret # RTP_OK
        /\ MadeNothing(k)
        /\ Calls(k) \subseteq {"socket_.init", "bind", "socket_.bind"}
        /\ boot[k].hs = NONE
        /\ (k = Len(boot) /\ life = "alive") => ~socket_.dest

C5_Witness ==
    \E j, k \in Boots :
        /\ boot[j].op = "init" /\ boot[j].conn = RTP_BIND_ERROR
        /\ boot[k].op = "init(zrtp)" /\ boot[k].conn = RTP_SOCKET_ERROR

\* C6 (as claimed): bootstrap runs at most once: a second init() or init(zrtp),
\* whatever the first one returned, is rejected and makes no call on the
\* transport and constructs no session context, sender or receiver.
C6_BootstrapOnlyOnce ==
    \A k \in Boots : k > 1 =>
        boot[k].ret # RTP_OK /\ boot[k].calls = <<>> /\ MadeNothing(k)

Pos(c) == CHOOSE i \in 1..Len(calls) : calls[i] = c
Made(c) == \E i \in 1..Len(calls) : calls[i] = c

\* C7: the destructor of an active session shuts the sender down no later than
\* it stops the receiver, stops the receiver before it releases the session
\* context, and releases the secure context last, after both are stopped; no
\* receiver's activity ever runs on a released session context.
C7_TeardownOrder ==
    /\ \A r \in ObjIds :
           receivers[r].st = "started" => rtps[receivers[r].rtp].st = "live"
    /\ (op = "~media_stream" /\ Valid(sender_) /\ Valid(receiver_)) =>
           /\ life = "closed" /\ ub = {}
           /\ Made("sender_->destroy") /\ Made("receiver_->stop") /\ Made("delete rtp_")
           /\ Pos("sender_->destroy") <= Pos("receiver_->stop")
           /\ Pos("receiver_->stop") < Pos("delete rtp_")
           /\ senders[sender_].st = "deleted" /\ receivers[receiver_].st = "deleted"
           /\ srtp_ # NULL =>
                  /\ calls[Len(calls)] = "delete srtp_"
                  /\ srtps[srtp_].st = "deleted"

C7_Witness ==
    /\ op = "~media_stream" /\ life = "closed"
    /\ Valid(sender_) /\ Valid(receiver_) /\ Valid(srtp_)
    /\ rtps[rtp_].st = "deleted"

\* C8 (as claimed): a secure context bound into the transport by a successful
\* init(zrtp) stays bound, and unreleased, while the orchestrator lives; nothing
\* replaces it; a session bootstrapped plain never gets a secure context bound.
C8_SrtpStaysBound ==
    life = "alive" =>
        /\ Valid(socket_.srtp) => srtps[socket_.srtp].st = "active"
        /\ \A k \in Boots : boot[k].ret = RTP_OK =>
               /\ boot[k].op = "init(zrtp)" => socket_.srtp = k
               /\ boot[k].op = "init" => socket_.srtp = NULL

Units == {"new sender", "new receiver", "sender_->init", "receiver_->start"}

\* C9: a bootstrap call returns RTP_OK exactly when it constructed and started
\* the sender and the receiver (and, in init(zrtp), activated the secure context
\* and bound it into the transport before that); a call that returns an error,
\* the failure of srtp_->init_zrtp after a good handshake included, constructed
\* and started neither and bound no secure context into the transport.
C9_SuccessIffActive ==
    \A k \in Boots :
        /\ boot[k].ret = RTP_OK <=>
               /\ Units \subseteq Calls(k)
               /\ senders[k].st # "none" /\ receivers[k].st # "none"
               /\ boot[k].op = "init(zrtp)" =>
                      /\ boot[k].sr = RTP_OK /\ "socket_.set_srtp" \in Calls(k)
                      /\ srtps[k].st \in {"active", "deleted"}
        /\ boot[k].ret # RTP_OK =>
               /\ Units \cap Calls(k) = {}
               /\ senders[k].st = "none" /\ receivers[k].st = "none"
               /\ "socket_.set_srtp" \notin Calls(k) /\ socket_.srtp # k
        /\ (k = Len(boot) /\ op = boot[k].op /\ ret = RTP_OK) =>
               Active /\ sender_ = k /\ receiver_ = k

C9_Witness ==
    \E k \in Boots :
        /\ boot[k].op = "init(zrtp)" /\ boot[k].hs = RTP_OK
        /\ boot[k].sr = RTP_NOT_SUPPORTED /\ boot[k].ret = RTP_NOT_SUPPORTED
        /\ srtp_ = k /\ srtps[k].st = "failed"

Conflict(a, b) == a[1] = b[1] /\ "write" \in {a[2], b[2]}
StepOfIO == pusher' # pusher \/ puller' # puller
StepOfReceiver == receivers' # receivers /\ boot' = boot /\ UNCHANGED thrd

\* C10: with push_frame and pull_frame running on threads of their own beside
\* the receiver's activity, push_frame only reads sender_, pull_frame only reads
\* receiver_, neither step nor the receiver's writes a field of the
\* orchestrator, and the two calls in flight never touch the same field with a
\* write among the accesses.
C10_DisjointAccess ==
    /\ pusher.acc \subseteq {<<"sender_", "read">>}
    /\ puller.acc \subseteq {<<"receiver_", "read">>}
    /\ \A a \in pusher.acc, b \in puller.acc : ~Conflict(a, b)

C10_ConcurrentIO ==
    /\ []C10_DisjointAccess
    /\ [][(StepOfIO \/ StepOfReceiver) => UNCHANGED <<ptrs, socket_, endp, conf>>]_vars

C10_Witness ==
    /\ pusher.st = "called" /\ puller.st = "called"
    /\ pusher.h = sender_ /\ puller.h = receiver_
    /\ receivers[receiver_].ready

(* ------------------------- configuration claims ------------------------ *)
\* C11: the session identity get_key() returns is fixed at construction: no
\* operation (either bootstrap, configure_ctx, set_media_config, hook
\* installation, frame I/O, the getters) changes key_, and every get_key()
\* returns the stored key_, hence the value it had right after construction.
C11_KeyFixedAtConstruction ==
    [][key_' = key_ /\ (op' = "get_key" => ret' = key_)]_vars

C11_Witness ==
    /\ op = "get_key" /\ ret = key_
    /\ Len(boot) = 1 /\ boot[1].ret = RTP_OK
    /\ media_config_ = "cfgA"
    /\ ctx_config_.flags = 3 /\ ctx_config_.ctx_values[1] = 1
    /\ receivers[receiver_].hook

\* everything of the orchestrator and of the objects it owns
Members == <<life, ptrs, heap, socket_, endp, conf, zrtp_args, thrd>>

\* C12: a rejected configuration call leaves all state unchanged:
\* configure_ctx(flag, value) with flag < 0, flag >= RCC_LAST or value < 0, and
\* configure_ctx(flag) with flag < 0 or flag >= RCE_LAST, return
\* RTP_INVALID_VALUE and leave the value table, the flag bitmask and every
\* other field as before the call.
C12_RejectedConfigureChangesNothing ==
    [][/\ \A flag \in KeyArgs, value \in ValueArgs :
            (flag < 0 \/ flag >= RCC_LAST \/ value < 0) /\ configure_ctx_value(flag, value)
                => ret' = RTP_INVALID_VALUE /\ UNCHANGED Members
       /\ \A flag \in FlagArgs :
            (flag < 0 \/ flag >= RCE_LAST) /\ configure_ctx_flag(flag)
                => ret' = RTP_INVALID_VALUE /\ UNCHANGED Members
       /\ op' \in {"configure_ctx(flag, value)", "configure_ctx(flag)"}
            /\ ret' = RTP_INVALID_VALUE => UNCHANGED Members]_vars

C12_Witness ==
    /\ op = "configure_ctx(flag, value)" /\ ret = RTP_INVALID_VALUE
    /\ ctx_config_.ctx_values[0] = 1 /\ ctx_config_.flags = 2
    /\ Len(boot) = 1 /\ boot[1].ret = RTP_OK

\* bit i of a bitmask
HasBit(x, i) == (x \div (2 ^ i)) % 2 = 1
Bits == 0..FlagBits
ValidFlags == 0..(RCE_LAST - 1)

\* C13: for every valid flag F (0 <= F < RCE_LAST) and every prior bitmask B,
\* configure_ctx(F) returns success and leaves the bitmask with exactly the
\* bits of B and of F; applying F once more yields the same bitmask again, and
\* applying a flag whose bits are all set already changes nothing.
C13_EnableOrsFlag ==
    /\ [][\A F \in ValidFlags : configure_ctx_flag(F) =>
              /\ ret' = RTP_OK
              /\ \A i \in Bits : HasBit(ctx_config_'.flags, i)
                                     <=> HasBit(ctx_config_.flags, i) \/ HasBit(F, i)
              /\ (\A i \in Bits : HasBit(F, i) => HasBit(ctx_config_.flags, i))
                     => ctx_config_' = ctx_config_]_vars
    /\ [](\A F \in ValidFlags :
              LET once  == configure_ctx_flag_body(ctx_config_, F)
                  twice == configure_ctx_flag_body(once.c, F)
              IN  once.ret = RTP_OK /\ twice.ret = RTP_OK /\ twice.c = once.c)

C13_Witness ==
    /\ op = "configure_ctx(flag)" /\ ret = RTP_OK
    /\ flags_ = 1 /\ ctx_config_.flags = 3

(* ------------------------------ hook claims ---------------------------- *)
\* C14: install_receive_hook(ctx, null) and install_deallocation_hook(null)
\* return RTP_INVALID_VALUE in every lifecycle state, make no call on the
\* receiver or the sender and execute no undefined behaviour whatever the two
\* pointers hold, and leave every registered hook (or the absence of one) and
\* all other state as it was.
C14_NullHookRejected ==
    [][install_receive_hook_with(FALSE) \/ install_deallocation_hook_with(FALSE)
          => /\ ret' = RTP_INVALID_VALUE
             /\ calls' = <<>> /\ ub' = {}
             /\ UNCHANGED Members]_vars

C14_Witness ==
    /\ op = "install_receive_hook" /\ ret = RTP_INVALID_VALUE
    /\ life = "alive" /\ boot = <<>> /\ receiver_ = WILD

(* --------------------------- connection claims ------------------------- *)
\* the local endpoint the construction form asks for
LocalEndpoint ==
    [addr |-> IF laddr_ # "" THEN laddr_ ELSE INADDR_ANY, port |-> src_port_]

\* C15: the local endpoint of the transport follows from the construction
\* form: with an explicit local address every bootstrap call binds through
\* bind(socket, laddr_, src_port_) and a bound socket sits on exactly (laddr_,
\* src_port_), never on INADDR_ANY; without one it binds through socket_.bind
\* to (INADDR_ANY, src_port_); and a bootstrap call whose bind fails returns an
\* error, sets no destination, makes no resource and leaves the socket unbound.
C15_BindEndpoint ==
    /\ socket_.fd = "bound" => socket_.local = LocalEndpoint
    /\ laddr_ # "" => socket_.local.addr # INADDR_ANY
    /\ \A k \in Boots :
         /\ Calls(k) \cap {"bind", "socket_.bind"}
               \subseteq {IF laddr_ # "" THEN "bind" ELSE "socket_.bind"}
         /\ boot[k].conn = RTP_BIND_ERROR =>
               /\ boot[k].ret = RTP_GENERIC_ERROR
               /\ "socket_.set_sockaddr" \notin Calls(k)
               /\ MadeNothing(k)
               /\ k = Len(boot) => socket_.fd # "bound" /\ socket_.local = NoLocal /\ ~socket_.dest

C15_Witness ==
    /\ Len(boot) = 2
    /\ boot[1].conn = RTP_BIND_ERROR /\ boot[2].op = "init" /\ boot[2].ret = RTP_OK
    /\ laddr_ = "10.0.0.2"
    /\ socket_.fd = "bound" /\ socket_.local = [addr |-> "10.0.0.2", port |-> 6000]

\* C16: the media-config reference is null after construction;
\* set_media_config stores whatever it is given, null included, whatever the
\* lifecycle state; get_media_config returns the stored reference and leaves
\* it; and no other operation (bootstrap, configure_ctx, hook installation,
\* frame I/O, get_key) changes it: so get_media_config returns what the most
\* recent set_media_config was given, or null if there was none.
C16_MediaConfigStoredAsGiven ==
    /\ media_config_ = "nullptr"
    /\ [][/\ \A config \in MediaConfigs :
               set_media_config_to(config) => media_config_' = config
          /\ op' = "get_media_config" => ret' = media_config_
          /\ op' # "set_media_config" => media_config_' = media_config_]_vars

C16_Witness ==
    /\ op = "get_media_config" /\ ret = "cfgB"
    /\ Len(boot) = 1 /\ boot[1].ret = RTP_OK
    /\ ctx_config_.flags = 1 /\ senders[sender_].hook

\* the steps of a secure bootstrap in the order claimed: create the transport,
\* bind it, set the default destination, construct the session context, run
\* the handshake, construct the secure context, activate it, bind it into the
\* transport, construct the sender and the receiver, start them
SecureSteps ==
    << "socket_.init", IF laddr_ # "" THEN "bind" ELSE "socket_.bind",
       "socket_.set_sockaddr", "new rtp", "zrtp->init", "new srtp",
       "srtp_->init_zrtp", "socket_.set_srtp", "new sender", "new receiver",
       "sender_->init", "receiver_->start" >>

\* how many of them the k-th bootstrap call may attempt, given what failed
StepsDue(k) ==
    IF boot[k].conn = RTP_SOCKET_ERROR THEN 1
    ELSE IF boot[k].conn = RTP_BIND_ERROR THEN 2
    ELSE IF boot[k].hs # RTP_OK THEN 5
    ELSE IF boot[k].sr # RTP_OK THEN 7
    ELSE Len(SecureSteps)

\* the last init(zrtp) call that invoked the handshake
LastHandshake ==
    CHOOSE k \in Boots :
        /\ "zrtp->init" \in Calls(k)
        /\ \A j \in Boots : "zrtp->init" \in Calls(j) => j <= k

\* C17: every secure bootstrap call attempts the steps in the claimed order
\* and stops at the first that fails, so each step is attempted only if all
\* earlier ones succeeded; the handshake is invoked only after the bind
\* succeeded and the destination was set, with the ssrc of the session context
\* made by the same call, the bound transport's handle and the destination.
C17_SecureBootstrapOrder ==
    /\ \A k \in Boots : boot[k].op = "init(zrtp)" =>
          /\ boot[k].calls = SubSeq(SecureSteps, 1, StepsDue(k))
          /\ "zrtp->init" \in Calls(k) => boot[k].conn = RTP_OK
    /\ zrtp_args # NoZrtpArgs =>
          /\ zrtp_args = [ssrc |-> LastHandshake, fd |-> "bound", dest |-> TRUE]
          /\ rtps[LastHandshake].st # "none"

C17_Witness ==
    /\ Len(boot) = 2
    /\ boot[1].op = "init(zrtp)" /\ boot[1].hs = RTP_TIMEOUT
    /\ boot[2].op = "init(zrtp)" /\ boot[2].ret = RTP_OK
    /\ Len(boot[2].calls) = Len(SecureSteps)
    /\ zrtp_args.ssrc = 2 /\ op = "init(zrtp)"

\* C18: the flag bitmask only grows: it starts as the flags the constructor
\* was given, no step of any operation clears a bit that was set, and so every
\* bit set at construction or by an earlier configure_ctx(flag) is still set.
C18_FlagsOnlyGrow ==
    /\ ctx_config_.flags = flags_
    /\ [][\A i \in Bits : HasBit(ctx_config_.flags, i) => HasBit(ctx_config_'.flags, i)]_vars
    /\ [](\A i \in Bits : HasBit(flags_, i) => HasBit(ctx_config_.flags, i))

C18_Witness ==
    /\ flags_ = 1 /\ ctx_config_.flags = 3
    /\ op = "configure_ctx(flag)" /\ ret = RTP_INVALID_VALUE
    /\ Len(boot) = 1

\* everything but the context configuration
BesidesCtxConfig ==
    <<life, ptrs, heap, socket_, endp, key_, media_config_, zrtp_args, thrd>>
ValidKeys == 0..(RCC_LAST - 1)

\* C19: a successful configure_ctx(flag, value) sets ctx_values[flag] to value
\* and leaves every other entry of the table, the flag bitmask, the session
\* identity, the media-config reference, the lifecycle state and all other
\* state as they were; a successful configure_ctx(flag) leaves the whole value
\* table and everything but the flag bitmask as it was.
C19_ConfigureChangesOnlyItsTarget ==
    [][/\ \A flag \in ValidKeys, value \in ValueArgs :
            value >= 0 /\ configure_ctx_value(flag, value) =>
                /\ ret' = RTP_OK
                /\ ctx_config_'.ctx_values[flag] = value
                /\ DOMAIN ctx_config_'.ctx_values = ValidKeys
                /\ \A j \in ValidKeys \ {flag} :
                      ctx_config_'.ctx_values[j] = ctx_config_.ctx_values[j]
                /\ ctx_config_'.flags = ctx_config_.flags
                /\ UNCHANGED BesidesCtxConfig
       /\ \A flag \in ValidFlags : configure_ctx_flag(flag) =>
                /\ ret' = RTP_OK
                /\ ctx_config_'.ctx_values = ctx_config_.ctx_values
                /\ UNCHANGED BesidesCtxConfig]_vars

C19_Witness ==
    /\ op = "configure_ctx(flag, value)" /\ ret = RTP_OK
    /\ ctx_config_.ctx_values[0] = 0 /\ ctx_config_.ctx_values[1] = 1
    /\ ctx_config_.flags = 3 /\ media_config_ = "cfgA"
    /\ Len(boot) = 1 /\ boot[1].ret = RTP_OK

====
